---- MODULE Spec2Model ----
(***************************************************************************)
(* Model of checksum-check (src-tauri/src/main.rs): the file checksum      *)
(* engine calculate_file_hash, the command calculate_checksum that wraps   *)
(* it, and the file system the engine reads.                               *)
(*                                                                         *)
(* Strings the program builds (hex digests, decimal timestamps) are        *)
(* sequences of one-character strings; byte buffers are sequences of       *)
(* numbers 0..255; machine words are sequences of 16-bit limbs, most       *)
(* significant limb first.                                                 *)
(***************************************************************************)
EXTENDS Integers, Sequences, FiniteSets, TLC

VARIABLES fs, pc, local, ret, outcome, trace, ui

vars == <<fs, pc, local, ret, outcome, trace, ui>>

(***************************************************************************)
(* Bounds of the model.                                                    *)
(***************************************************************************)
\* longest file content, in bytes
MaxLen == 1
\* clock ticks per second: a SystemTime is finer than a second
TicksPerSec == 2
\* the longest sequence of window, tray and menu events the shell is sent
MaxEvents == 4

\* the byte values file contents are drawn from
Bytes == {97}
\* file timestamps, in ticks relative to the Unix epoch (negative: before it)
Timestamps == {-3, 25}
\* the paths a caller passes
Paths == {"a.txt", "b.txt"}
\* the invocations of the command, in the order the frontend issues them
InvocationOrder == <<"i1", "i2">>

Invocations == {InvocationOrder[k] : k \in DOMAIN InvocationOrder}

RECURSIVE SeqsUpTo(_)
SeqsUpTo(n) ==
    IF n = 0 THEN {<<>>}
    ELSE LET shorter == SeqsUpTo(n - 1)
         IN  shorter \cup {Append(s, b) : s \in shorter, b \in Bytes}

\* every content a file can have
Contents == SeqsUpTo(MaxLen)

(***************************************************************************)
(* io::Result and Result<HashResult, String>.                              *)
(***************************************************************************)
Ok(v) == [tag |-> "Ok", value |-> v]
Err(e) == [tag |-> "Err", error |-> e]
\* the function has not returned yet
Pending == [tag |-> "Pending"]

\* an io::Error, by its ErrorKind
IoError(kind) == [kind |-> kind]

\* e.to_string(): the Display text of an io::Error
ErrorToString(e) ==
    CASE e.kind = "NotFound" -> "No such file or directory (os error 2)"
      [] e.kind = "PermissionDenied" -> "Permission denied (os error 13)"
      [] e.kind = "Unsupported" -> "operation not supported on this platform"
      [] OTHER -> "Input/output error (os error 5)"

(***************************************************************************)
(* Machine words.  A word is a sequence of 16-bit limbs, most significant  *)
(* first: two limbs for the 32-bit words of MD5, SHA-1 and SHA-256, four   *)
(* for the 64-bit words of SHA-512.  All arithmetic is modulo the width.   *)
(***************************************************************************)
\* x AND y for 4-bit x, y: AndTable[x + 1][y + 1]
AndTable ==
    <<
       <<0, 0, 0, 0, 0, 0, 0, 0, 0, 0, 0, 0, 0, 0, 0, 0>>,
       <<0, 1, 0, 1, 0, 1, 0, 1, 0, 1, 0, 1, 0, 1, 0, 1>>,
       <<0, 0, 2, 2, 0, 0, 2, 2, 0, 0, 2, 2, 0, 0, 2, 2>>,
       <<0, 1, 2, 3, 0, 1, 2, 3, 0, 1, 2, 3, 0, 1, 2, 3>>,
       <<0, 0, 0, 0, 4, 4, 4, 4, 0, 0, 0, 0, 4, 4, 4, 4>>,
       <<0, 1, 0, 1, 4, 5, 4, 5, 0, 1, 0, 1, 4, 5, 4, 5>>,
       <<0, 0, 2, 2, 4, 4, 6, 6, 0, 0, 2, 2, 4, 4, 6, 6>>,
       <<0, 1, 2, 3, 4, 5, 6, 7, 0, 1, 2, 3, 4, 5, 6, 7>>,
       <<0, 0, 0, 0, 0, 0, 0, 0, 8, 8, 8, 8, 8, 8, 8, 8>>,
       <<0, 1, 0, 1, 0, 1, 0, 1, 8, 9, 8, 9, 8, 9, 8, 9>>,
       <<0, 0, 2, 2, 0, 0, 2, 2, 8, 8, 10, 10, 8, 8, 10, 10>>,
       <<0, 1, 2, 3, 0, 1, 2, 3, 8, 9, 10, 11, 8, 9, 10, 11>>,
       <<0, 0, 0, 0, 4, 4, 4, 4, 8, 8, 8, 8, 12, 12, 12, 12>>,
       <<0, 1, 0, 1, 4, 5, 4, 5, 8, 9, 8, 9, 12, 13, 12, 13>>,
       <<0, 0, 2, 2, 4, 4, 6, 6, 8, 8, 10, 10, 12, 12, 14, 14>>,
       <<0, 1, 2, 3, 4, 5, 6, 7, 8, 9, 10, 11, 12, 13, 14, 15>>
    >>

\* 2^k: Pow2Table[k + 1], k in 0..16
Pow2Table ==
    <<
       1, 2, 4, 8, 16, 32, 64, 128, 256, 512, 1024, 2048, 4096, 8192, 16384, 32768, 65536
    >>

Pow2(k) == Pow2Table[k + 1]

And4(x, y) == AndTable[x + 1][y + 1]

And16(a, b) ==
      And4(a \div 4096, b \div 4096) * 4096
    + And4((a \div 256) % 16, (b \div 256) % 16) * 256
    + And4((a \div 16) % 16, (b \div 16) % 16) * 16
    + And4(a % 16, b % 16)

Xor16(a, b) == a + b - 2 * And16(a, b)

Or16(a, b) == a + b - And16(a, b)

Not16(a) == 65535 - a

RECURSIVE WAnd(_, _)
WAnd(a, b) ==
    IF a = <<>> THEN <<>>
    ELSE <<And16(Head(a), Head(b))>> \o WAnd(Tail(a), Tail(b))

RECURSIVE WXor(_, _)
WXor(a, b) ==
    IF a = <<>> THEN <<>>
    ELSE <<Xor16(Head(a), Head(b))>> \o WXor(Tail(a), Tail(b))

RECURSIVE WOr(_, _)
WOr(a, b) ==
    IF a = <<>> THEN <<>>
    ELSE <<Or16(Head(a), Head(b))>> \o WOr(Tail(a), Tail(b))

RECURSIVE WNot(_)
WNot(a) ==
    IF a = <<>> THEN <<>>
    ELSE <<Not16(Head(a))>> \o WNot(Tail(a))

\* wrapping_add: limb by limb from the least significant, with carry
RECURSIVE AddCarry(_, _, _)
AddCarry(a, b, carry) ==
    IF a = <<>> THEN <<>>
    ELSE LET s == a[Len(a)] + b[Len(b)] + carry
         IN  AddCarry(SubSeq(a, 1, Len(a) - 1), SubSeq(b, 1, Len(b) - 1),
                      s \div 65536) \o <<s % 65536>>

WAdd(a, b) == AddCarry(a, b, 0)

\* rotate_right by k bits, 0 <= k <= width
RotR(w, k) ==
    LET n == Len(w)
        q == k \div 16
        r == k % 16
        L(i) == w[((i - 1 - q + 2 * n) % n) + 1]
        Out(i) == (L(i) \div Pow2(r)) + (L(i - 1) % Pow2(r)) * Pow2(16 - r)
    IN  IF n = 2 THEN <<Out(1), Out(2)>>
        ELSE <<Out(1), Out(2), Out(3), Out(4)>>

\* rotate_left by k bits
RotL(w, k) == RotR(w, 16 * Len(w) - k)

\* logical shift right by k bits
ShR(w, k) ==
    LET n == Len(w)
        q == k \div 16
        r == k % 16
        L(i) == IF i - q >= 1 THEN w[i - q] ELSE 0
        Out(i) == (L(i) \div Pow2(r)) + (L(i - 1) % Pow2(r)) * Pow2(16 - r)
    IN  IF n = 2 THEN <<Out(1), Out(2)>>
        ELSE <<Out(1), Out(2), Out(3), Out(4)>>

(***************************************************************************)
(* The rounds of a block are taken in two halves, the first half's value   *)
(* computed (by the comparison with <<>>) before the second half starts:   *)
(* TLC evaluates an argument only when it is used, and a chain of 64 or 80 *)
(* pending rounds would otherwise be unwound on the stack at once.         *)
(*                                                                         *)
(* Message padding and the conversions between bytes and words.            *)
(***************************************************************************)
RECURSIVE Zeros(_)
Zeros(k) ==
    IF k = 0 THEN <<>>
    ELSE IF k = 1 THEN <<0>>
    ELSE Zeros(k \div 2) \o Zeros(k - (k \div 2))

\* v as c bytes, most significant first
RECURSIVE IntBytesBE(_, _)
IntBytesBE(v, c) ==
    IF c = 0 THEN <<>> ELSE IntBytesBE(v \div 256, c - 1) \o <<v % 256>>

\* v as c bytes, least significant first
RECURSIVE IntBytesLE(_, _)
IntBytesLE(v, c) ==
    IF c = 0 THEN <<>> ELSE <<v % 256>> \o IntBytesLE(v \div 256, c - 1)

\* the message, a 1 bit, zero bits up to the length field, the bit length
Pad(msg, blockBytes, lenBytes, littleEndian) ==
    LET used == (Len(msg) + 1 + lenBytes) % blockBytes
        z == (blockBytes - used) % blockBytes
        bits == Len(msg) * 8
    IN  msg \o <<128>> \o Zeros(z)
            \o (IF littleEndian THEN IntBytesLE(bits, lenBytes)
                ELSE IntBytesBE(bits, lenBytes))

\* the big-endian word of n limbs that starts after byte off
WordBE(bytes, off, n) ==
    LET limb(i) == bytes[off + 2 * i - 1] * 256 + bytes[off + 2 * i]
    IN  IF n = 2 THEN <<limb(1), limb(2)>>
        ELSE <<limb(1), limb(2), limb(3), limb(4)>>

\* the little-endian 32-bit word that starts after byte off
WordLE(bytes, off) ==
    <<bytes[off + 4] * 256 + bytes[off + 3], bytes[off + 2] * 256 + bytes[off + 1]>>

\* words lo..hi (counted from 0) of a byte sequence
RECURSIVE WordsBE(_, _, _, _)
WordsBE(bytes, n, lo, hi) ==
    IF lo = hi THEN <<WordBE(bytes, 2 * n * lo, n)>>
    ELSE LET mid == (lo + hi) \div 2
         IN  WordsBE(bytes, n, lo, mid) \o WordsBE(bytes, n, mid + 1, hi)

RECURSIVE WordsLE(_, _, _)
WordsLE(bytes, lo, hi) ==
    IF lo = hi THEN <<WordLE(bytes, 4 * lo)>>
    ELSE LET mid == (lo + hi) \div 2
         IN  WordsLE(bytes, lo, mid) \o WordsLE(bytes, mid + 1, hi)

\* a word as bytes, most significant first
RECURSIVE WordBytesBE(_)
WordBytesBE(w) ==
    IF w = <<>> THEN <<>>
    ELSE <<Head(w) \div 256, Head(w) % 256>> \o WordBytesBE(Tail(w))

\* a 32-bit word as bytes, least significant first
WordBytesLE(w) == <<w[2] % 256, w[2] \div 256, w[1] % 256, w[1] \div 256>>

RECURSIVE WordsBytesBE(_)
WordsBytesBE(ws) ==
    IF ws = <<>> THEN <<>>
    ELSE WordBytesBE(Head(ws)) \o WordsBytesBE(Tail(ws))

RECURSIVE WordsBytesLE(_)
WordsBytesLE(ws) ==
    IF ws = <<>> THEN <<>>
    ELSE WordBytesLE(Head(ws)) \o WordsBytesLE(Tail(ws))

\* the chaining value plus the working variables, word by word
RECURSIVE AddWords(_, _)
AddWords(h, st) ==
    IF h = <<>> THEN <<>>
    ELSE <<WAdd(Head(h), Head(st))>> \o AddWords(Tail(h), Tail(st))

(***************************************************************************)
(* MD5 (RFC 1321), as Md5::new(), update(&buffer), finalize() compute it.  *)
(***************************************************************************)
\* RFC 1321: the initial A, B, C, D
Md5Init ==
    <<
       <<26437, 8961>>, <<61389, 43913>>, <<39098, 56574>>, <<4146, 21622>>
    >>

\* RFC 1321: T[i] = floor(2^32 * abs(sin(i))), as limbs
Md5K ==
    <<
       <<55146, 42104>>, <<59591, 46934>>, <<9248, 28891>>, <<49597, 52974>>,
       <<62844, 4015>>, <<18311, 50730>>, <<43056, 17939>>, <<64838, 38145>>,
       <<27008, 39128>>, <<35652, 63407>>, <<65535, 23473>>, <<35164, 55230>>,
       <<27536, 4386>>, <<64920, 29075>>, <<42617, 17294>>, <<18868, 2081>>,
       <<63006, 9570>>, <<49216, 45888>>, <<9822, 23121>>, <<59830, 51114>>,
       <<54831, 4189>>, <<580, 5203>>, <<55457, 59009>>, <<59347, 64456>>,
       <<8673, 52710>>, <<49975, 2006>>, <<62677, 3463>>, <<17754, 5357>>,
       <<43491, 59653>>, <<64751, 41976>>, <<26479, 729>>, <<36138, 19594>>,
       <<65530, 14658>>, <<34673, 63105>>, <<28061, 24866>>, <<64997, 14348>>,
       <<42174, 59972>>, <<19422, 53161>>, <<63163, 19296>>, <<48831, 48240>>,
       <<10395, 32454>>, <<60065, 10234>>, <<54511, 12421>>, <<1160, 7429>>,
       <<55764, 53305>>, <<59099, 39397>>, <<8098, 31992>>, <<50348, 22117>>,
       <<62505, 8772>>, <<17194, 65431>>, <<43924, 9127>>, <<64659, 41017>>,
       <<25947, 22979>>, <<36620, 52370>>, <<65519, 62589>>, <<34180, 24017>>,
       <<28584, 32335>>, <<65068, 59104>>, <<41729, 17172>>, <<19976, 4513>>,
       <<63315, 32386>>, <<48442, 62005>>, <<10967, 53947>>, <<60294, 54161>>
    >>

\* RFC 1321: the per-step left rotations
Md5S ==
    <<
       7, 12, 17, 22, 7, 12, 17, 22, 7, 12, 17, 22, 7, 12, 17, 22,
       5, 9, 14, 20, 5, 9, 14, 20, 5, 9, 14, 20, 5, 9, 14, 20,
       4, 11, 16, 23, 4, 11, 16, 23, 4, 11, 16, 23, 4, 11, 16, 23,
       6, 10, 15, 21, 6, 10, 15, 21, 6, 10, 15, 21, 6, 10, 15, 21
    >>

\* RFC 1321: the message word each step takes
Md5G ==
    <<
       0, 1, 2, 3, 4, 5, 6, 7, 8, 9, 10, 11, 12, 13, 14, 15,
       1, 6, 11, 0, 5, 10, 15, 4, 9, 14, 3, 8, 13, 2, 7, 12,
       5, 8, 11, 14, 1, 4, 7, 10, 13, 0, 3, 6, 9, 12, 15, 2,
       0, 7, 14, 5, 12, 3, 10, 1, 8, 15, 6, 13, 4, 11, 2, 9
    >>

Md5F(i, B, C, D) ==
    IF i < 16 THEN WOr(WAnd(B, C), WAnd(WNot(B), D))
    ELSE IF i < 32 THEN WOr(WAnd(D, B), WAnd(WNot(D), C))
    ELSE IF i < 48 THEN WXor(WXor(B, C), D)
    ELSE WXor(C, WOr(B, WNot(D)))

Md5Step(st, M, i) ==
    LET A == st[1]
        B == st[2]
        C == st[3]
        D == st[4]
        F == WAdd(WAdd(WAdd(Md5F(i, B, C, D), A), Md5K[i + 1]), M[Md5G[i + 1] + 1])
    IN  <<D, WAdd(B, RotL(F, Md5S[i + 1])), B, C>>

\* steps lo..hi of one block
RECURSIVE Md5Rounds(_, _, _, _)
Md5Rounds(st, M, lo, hi) ==
    IF lo = hi THEN Md5Step(st, M, lo)
    ELSE LET mid == (lo + hi) \div 2
             half == Md5Rounds(st, M, lo, mid)
         IN  IF half = <<>> THEN half ELSE Md5Rounds(half, M, mid + 1, hi)

\* blocks k.. of the padded message
RECURSIVE Md5Blocks(_, _, _)
Md5Blocks(h, padded, k) ==
    IF 64 * k >= Len(padded) THEN h
    ELSE LET M == WordsLE(SubSeq(padded, 64 * k + 1, 64 * k + 64), 0, 15)
             next == AddWords(h, Md5Rounds(h, M, 0, 63))
         IN  IF next = <<>> THEN next ELSE Md5Blocks(next, padded, k + 1)

\* the 16 digest bytes of a message
Md5Digest(msg) == WordsBytesLE(Md5Blocks(Md5Init, Pad(msg, 64, 8, TRUE), 0))

(***************************************************************************)
(* SHA-1 (FIPS 180-4), as Sha1::new(), update(&buffer), finalize().        *)
(***************************************************************************)
\* FIPS 180-4 5.3.1: the initial hash value
Sha1Init ==
    <<
       <<26437, 8961>>, <<61389, 43913>>, <<39098, 56574>>, <<4146, 21622>>, <<50130, 57840>>
    >>

\* FIPS 180-4 4.2.1: the constant of each 20-round group
Sha1K ==
    <<
       <<23170, 31129>>, <<28377, 60321>>, <<36635, 48348>>, <<51810, 49622>>
    >>

Sha1F(t, b, c, d) ==
    IF t < 20 THEN WOr(WAnd(b, c), WAnd(WNot(b), d))
    ELSE IF t < 40 THEN WXor(WXor(b, c), d)
    ELSE IF t < 60 THEN WOr(WOr(WAnd(b, c), WAnd(b, d)), WAnd(c, d))
    ELSE WXor(WXor(b, c), d)

\* the message schedule extended by words lo..hi (counted from 0)
RECURSIVE Sha1Schedule(_, _, _)
Sha1Schedule(W, lo, hi) ==
    IF lo = hi
    THEN Append(W, RotL(WXor(WXor(W[lo - 2], W[lo - 7]),
                             WXor(W[lo - 13], W[lo - 15])), 1))
    ELSE LET mid == (lo + hi) \div 2
             half == Sha1Schedule(W, lo, mid)
         IN  IF half = <<>> THEN half ELSE Sha1Schedule(half, mid + 1, hi)

Sha1Step(st, W, t) ==
    LET a == st[1]
        b == st[2]
        c == st[3]
        d == st[4]
        e == st[5]
        tmp == WAdd(WAdd(WAdd(WAdd(RotL(a, 5), Sha1F(t, b, c, d)), e),
                         Sha1K[(t \div 20) + 1]), W[t + 1])
    IN  <<tmp, a, RotL(b, 30), c, d>>

RECURSIVE Sha1Rounds(_, _, _, _)
Sha1Rounds(st, W, lo, hi) ==
    IF lo = hi THEN Sha1Step(st, W, lo)
    ELSE LET mid == (lo + hi) \div 2
             half == Sha1Rounds(st, W, lo, mid)
         IN  IF half = <<>> THEN half ELSE Sha1Rounds(half, W, mid + 1, hi)

RECURSIVE Sha1Blocks(_, _, _)
Sha1Blocks(h, padded, k) ==
    IF 64 * k >= Len(padded) THEN h
    ELSE LET W == Sha1Schedule(
                      WordsBE(SubSeq(padded, 64 * k + 1, 64 * k + 64), 2, 0, 15),
                      16, 79)
             next == AddWords(h, Sha1Rounds(h, W, 0, 79))
         IN  IF next = <<>> THEN next ELSE Sha1Blocks(next, padded, k + 1)

\* the 20 digest bytes of a message
Sha1Digest(msg) == WordsBytesBE(Sha1Blocks(Sha1Init, Pad(msg, 64, 8, FALSE), 0))

(***************************************************************************)
(* SHA-256 and SHA-512 (FIPS 180-4), as Sha256::new() / Sha512::new(),     *)
(* update(&buffer), finalize().  The two differ in the word width, the     *)
(* constants, the rotation amounts and the number of rounds.               *)
(***************************************************************************)
\* FIPS 180-4 5.3.3
Sha256Init ==
    <<
       <<27145, 58983>>, <<47975, 44677>>, <<15470, 62322>>, <<42319, 62778>>,
       <<20750, 21119>>, <<39685, 26764>>, <<8067, 55723>>, <<23520, 52505>>
    >>

\* FIPS 180-4 4.2.2
Sha256K ==
    <<
       <<17034, 12184>>, <<28983, 17553>>, <<46528, 64463>>, <<59829, 56229>>,
       <<14678, 49755>>, <<23025, 4593>>, <<37439, 33444>>, <<43804, 24277>>,
       <<55303, 43672>>, <<4739, 23297>>, <<9265, 34238>>, <<21772, 32195>>,
       <<29374, 23924>>, <<32990, 45566>>, <<39900, 1703>>, <<49563, 61812>>,
       <<58523, 27073>>, <<61374, 18310>>, <<4033, 40390>>, <<9228, 41420>>,
       <<11753, 11375>>, <<19060, 33962>>, <<23728, 43484>>, <<30457, 35034>>,
       <<38974, 20818>>, <<43057, 50797>>, <<45059, 10184>>, <<48985, 32711>>,
       <<50912, 3059>>, <<54695, 37191>>, <<1738, 25425>>, <<5161, 10599>>,
       <<10167, 2693>>, <<11803, 8504>>, <<19756, 28156>>, <<21304, 3347>>,
       <<25866, 29524>>, <<30314, 2747>>, <<33218, 51502>>, <<37490, 11397>>,
       <<41663, 59553>>, <<43034, 26187>>, <<49739, 35696>>, <<51052, 20899>>,
       <<53650, 59417>>, <<54937, 1572>>, <<62478, 13701>>, <<4202, 41072>>,
       <<6564, 49430>>, <<7735, 27656>>, <<10056, 30540>>, <<13488, 48309>>,
       <<14620, 3251>>, <<20184, 43594>>, <<23452, 51791>>, <<26670, 28659>>,
       <<29839, 33518>>, <<30885, 25455>>, <<33992, 30740>>, <<36039, 520>>,
       <<37054, 65530>>, <<42064, 27883>>, <<48889, 41975>>, <<50801, 30962>>
    >>

\* FIPS 180-4 5.3.5
Sha512Init ==
    <<
       <<27145, 58983, 62396, 51464>>, <<47975, 44677, 33994, 42811>>,
       <<15470, 62322, 65172, 63531>>, <<42319, 62778, 24349, 14065>>,
       <<20750, 21119, 44518, 33489>>, <<39685, 26764, 11070, 27679>>,
       <<8067, 55723, 64321, 48491>>, <<23520, 52505, 4990, 8569>>
    >>

\* FIPS 180-4 4.2.3
Sha512K ==
    <<
       <<17034, 12184, 55080, 44578>>, <<28983, 17553, 9199, 26061>>,
       <<46528, 64463, 60493, 15151>>, <<59829, 56229, 33161, 56252>>,
       <<14678, 49755, 62280, 46392>>, <<23025, 4593, 46597, 53273>>,
       <<37439, 33444, 44825, 20379>>, <<43804, 24277, 55917, 33048>>,
       <<55303, 43672, 41731, 578>>, <<4739, 23297, 17776, 28606>>,
       <<9265, 34238, 20196, 45708>>, <<21772, 32195, 54783, 46306>>,
       <<29374, 23924, 62075, 35183>>, <<32990, 45566, 15126, 38577>>,
       <<39900, 1703, 9671, 4661>>, <<49563, 61812, 53097, 9876>>,
       <<58523, 27073, 40689, 19154>>, <<61374, 18310, 14415, 9699>>,
       <<4033, 40390, 35724, 54709>>, <<9228, 41420, 30636, 40037>>,
       <<11753, 11375, 22827, 629>>, <<19060, 33962, 28326, 58499>>,
       <<23728, 43484, 48449, 64468>>, <<30457, 35034, 33553, 21429>>,
       <<38974, 20818, 61030, 57259>>, <<43057, 50797, 11700, 12816>>,
       <<45059, 10184, 39163, 8511>>, <<48985, 32711, 48879, 3812>>,
       <<50912, 3059, 15784, 36802>>, <<54695, 37191, 37642, 42789>>,
       <<1738, 25425, 57347, 33391>>, <<5161, 10599, 2574, 28272>>,
       <<10167, 2693, 18130, 12284>>, <<11803, 8504, 23590, 51494>>,
       <<19756, 28156, 23236, 10989>>, <<21304, 3347, 40341, 46047>>,
       <<25866, 29524, 35759, 25566>>, <<30314, 2747, 15479, 45736>>,
       <<33218, 51502, 18413, 44774>>, <<37490, 11397, 5250, 13627>>,
       <<41663, 59553, 19697, 868>>, <<43034, 26187, 48194, 12289>>,
       <<49739, 35696, 53496, 38801>>, <<51052, 20899, 1620, 48688>>,
       <<53650, 59417, 55023, 21016>>, <<54937, 1572, 21861, 43280>>,
       <<62478, 13701, 22385, 8234>>, <<4202, 41072, 12987, 53688>>,
       <<6564, 49430, 47314, 53448>>, <<7735, 27656, 20801, 43859>>,
       <<10056, 30540, 57230, 60313>>, <<13488, 48309, 57755, 18600>>,
       <<14620, 3251, 50633, 23139>>, <<20184, 43594, 58177, 35531>>,
       <<23452, 51791, 30563, 58227>>, <<26670, 28659, 54962, 47267>>,
       <<29839, 33518, 24047, 45820>>, <<30885, 25455, 17175, 12128>>,
       <<33992, 30740, 41456, 43890>>, <<36039, 520, 6756, 14828>>,
       <<37054, 65530, 9059, 7720>>, <<42064, 27883, 56962, 48617>>,
       <<48889, 41975, 45766, 30997>>, <<50801, 30962, 58226, 21291>>,
       <<51751, 16078, 59942, 24988>>, <<53638, 47303, 8640, 49671>>,
       <<60122, 32214, 52704, 60190>>, <<62845, 20351, 61038, 53624>>,
       <<1776, 26538, 29207, 28602>>, <<2659, 32197, 41672, 39078>>,
       <<4415, 38916, 48889, 3502>>, <<7025, 2869, 4892, 18203>>,
       <<10459, 30709, 8964, 32132>>, <<13002, 43899, 16583, 9363>>,
       <<15518, 48650, 5577, 48828>>, <<17181, 26564, 39952, 3404>>,
       <<19653, 54462, 52030, 17078>>, <<22911, 10652, 64613, 32298>>,
       <<24523, 28587, 15062, 64236>>, <<27716, 6540, 19015, 22551>>
    >>

Sha256Params ==
    [limbs |-> 2, rounds |-> 64, init |-> Sha256Init, k |-> Sha256K,
     bigSigma0 |-> <<2, 13, 22>>, bigSigma1 |-> <<6, 11, 25>>,
     smallSigma0 |-> <<7, 18, 3>>, smallSigma1 |-> <<17, 19, 10>>]

Sha512Params ==
    [limbs |-> 4, rounds |-> 80, init |-> Sha512Init, k |-> Sha512K,
     bigSigma0 |-> <<28, 34, 39>>, bigSigma1 |-> <<14, 18, 41>>,
     smallSigma0 |-> <<1, 8, 7>>, smallSigma1 |-> <<19, 61, 6>>]

BigSigma(x, r) == WXor(WXor(RotR(x, r[1]), RotR(x, r[2])), RotR(x, r[3]))

SmallSigma(x, r) == WXor(WXor(RotR(x, r[1]), RotR(x, r[2])), ShR(x, r[3]))

Ch(e, f, g) == WXor(WAnd(e, f), WAnd(WNot(e), g))

Maj(a, b, c) == WXor(WXor(WAnd(a, b), WAnd(a, c)), WAnd(b, c))

RECURSIVE Sha2Schedule(_, _, _, _)
Sha2Schedule(W, p, lo, hi) ==
    IF lo = hi
    THEN Append(W, WAdd(WAdd(W[lo - 15], SmallSigma(W[lo - 14], p.smallSigma0)),
                        WAdd(W[lo - 6], SmallSigma(W[lo - 1], p.smallSigma1))))
    ELSE LET mid == (lo + hi) \div 2
             half == Sha2Schedule(W, p, lo, mid)
         IN  IF half = <<>> THEN half ELSE Sha2Schedule(half, p, mid + 1, hi)

Sha2Step(st, W, p, t) ==
    LET a == st[1]
        b == st[2]
        c == st[3]
        d == st[4]
        e == st[5]
        f == st[6]
        g == st[7]
        h == st[8]
        T1 == WAdd(WAdd(WAdd(WAdd(h, BigSigma(e, p.bigSigma1)), Ch(e, f, g)),
                        p.k[t + 1]), W[t + 1])
        T2 == WAdd(BigSigma(a, p.bigSigma0), Maj(a, b, c))
    IN  <<WAdd(T1, T2), a, b, c, WAdd(d, T1), e, f, g>>

RECURSIVE Sha2Rounds(_, _, _, _, _)
Sha2Rounds(st, W, p, lo, hi) ==
    IF lo = hi THEN Sha2Step(st, W, p, lo)
    ELSE LET mid == (lo + hi) \div 2
             half == Sha2Rounds(st, W, p, lo, mid)
         IN  IF half = <<>> THEN half ELSE Sha2Rounds(half, W, p, mid + 1, hi)

RECURSIVE Sha2Blocks(_, _, _, _)
Sha2Blocks(h, padded, p, k) ==
    LET blockBytes == 32 * p.limbs
    IN  IF blockBytes * k >= Len(padded) THEN h
        ELSE LET W == Sha2Schedule(
                          WordsBE(SubSeq(padded, blockBytes * k + 1,
                                         blockBytes * (k + 1)), p.limbs, 0, 15),
                          p, 16, p.rounds - 1)
                 next == AddWords(h, Sha2Rounds(h, W, p, 0, p.rounds - 1))
             IN  IF next = <<>> THEN next ELSE Sha2Blocks(next, padded, p, k + 1)

Sha2Digest(msg, p) ==
    WordsBytesBE(Sha2Blocks(p.init, Pad(msg, 32 * p.limbs, 4 * p.limbs, FALSE), p, 0))

\* the 32 digest bytes of a message
Sha256Digest(msg) == Sha2Digest(msg, Sha256Params)

\* the 64 digest bytes of a message
Sha512Digest(msg) == Sha2Digest(msg, Sha512Params)

(***************************************************************************)
(* The digests of every content a buffer can hold, computed once.          *)
(***************************************************************************)
Md5Table == {<<c, Md5Digest(c)>> : c \in Contents}

Sha1Table == {<<c, Sha1Digest(c)>> : c \in Contents}

Sha256Table == {<<c, Sha256Digest(c)>> : c \in Contents}

Sha512Table == {<<c, Sha512Digest(c)>> : c \in Contents}

\* hasher = Md5::new(); hasher.update(data); hasher.finalize()
Md5(data) ==
    IF data \in Contents THEN (CHOOSE e \in Md5Table : e[1] = data)[2]
    ELSE Md5Digest(data)

Sha1(data) ==
    IF data \in Contents THEN (CHOOSE e \in Sha1Table : e[1] = data)[2]
    ELSE Sha1Digest(data)

Sha256(data) ==
    IF data \in Contents THEN (CHOOSE e \in Sha256Table : e[1] = data)[2]
    ELSE Sha256Digest(data)

Sha512(data) ==
    IF data \in Contents THEN (CHOOSE e \in Sha512Table : e[1] = data)[2]
    ELSE Sha512Digest(data)

(***************************************************************************)
(* The encoders: format!("{:x}", digest) and u64::to_string().             *)
(***************************************************************************)
LowerHexDigits ==
    <<"0", "1", "2", "3", "4", "5", "6", "7", "8", "9", "a", "b", "c", "d", "e", "f">>

UpperHexDigits ==
    <<"0", "1", "2", "3", "4", "5", "6", "7", "8", "9", "A", "B", "C", "D", "E", "F">>

\* bytes lo..hi, two digits each, high nibble first
RECURSIVE HexRange(_, _, _, _)
HexRange(bytes, digits, lo, hi) ==
    IF lo > hi THEN <<>>
    ELSE IF lo = hi
    THEN <<digits[(bytes[lo] \div 16) + 1], digits[(bytes[lo] % 16) + 1]>>
    ELSE LET mid == (lo + hi) \div 2
         IN  HexRange(bytes, digits, lo, mid) \o HexRange(bytes, digits, mid + 1, hi)

\* bytes lo..hi, each as {:x} prints a lone u8: no leading zero
RECURSIVE HexRangeUnpadded(_, _, _)
HexRangeUnpadded(bytes, lo, hi) ==
    IF lo > hi THEN <<>>
    ELSE IF lo = hi
    THEN IF bytes[lo] < 16 THEN <<LowerHexDigits[bytes[lo] + 1]>>
         ELSE <<LowerHexDigits[(bytes[lo] \div 16) + 1], LowerHexDigits[(bytes[lo] % 16) + 1]>>
    ELSE LET mid == (lo + hi) \div 2
         IN  HexRangeUnpadded(bytes, lo, mid) \o HexRangeUnpadded(bytes, mid + 1, hi)

\* format!("{:X}", digest)
UpperHex(bytes) == HexRange(bytes, UpperHexDigits, 1, Len(bytes))

\* the digest's bytes printed one by one with {:x}
LowerHexUnpadded(bytes) == HexRangeUnpadded(bytes, 1, Len(bytes))

\* format!("{:x}", digest): GenericArray's LowerHex
LowerHex(bytes) == HexRange(bytes, LowerHexDigits, 1, Len(bytes))

DecimalDigits == <<"0", "1", "2", "3", "4", "5", "6", "7", "8", "9">>

\* n.to_string() for an unsigned n
RECURSIVE to_string(_)
to_string(n) ==
    IF n < 10 THEN <<DecimalDigits[n + 1]>>
    ELSE Append(to_string(n \div 10), DecimalDigits[(n % 10) + 1])

(***************************************************************************)
(* The file system.  A path names nothing, a file the caller may not open, *)
(* or a readable file with its content and its two timestamps.  A          *)
(* timestamp the platform cannot supply is unavailable.                    *)
(***************************************************************************)
NoTime == [avail |-> FALSE, ticks |-> 0]

Times == {NoTime} \cup {[avail |-> TRUE, ticks |-> t] : t \in Timestamps}

Missing == [state |-> "missing", content |-> <<>>, mtime |-> NoTime, ctime |-> NoTime]

Denied == [state |-> "denied", content |-> <<>>, mtime |-> NoTime, ctime |-> NoTime]

Files == [state : {"file"}, content : Contents, mtime : Times, ctime : Times]

FileEntries == Files \cup {Missing, Denied}

\* a file on a platform that supplies both timestamps
PlainTime == [avail |-> TRUE, ticks |-> 25]

PlainEntries ==
    {e \in Files : e.mtime = PlainTime /\ e.ctime = PlainTime} \cup {Missing, Denied}

(***************************************************************************)
(* The UI shell: the application, its main window, and the events it has   *)
(* been sent.  window is "visible", "hidden" or, once closed, "closed".    *)
(***************************************************************************)
\* the shell when setup has run, the main window created visible or hidden
StartUi(w) ==
    [app |-> "running", window |-> w, launched |-> FALSE, events |-> <<>>]

(***************************************************************************)
(* The locals of calculate_file_hash.                                      *)
(***************************************************************************)
NoMetadata == [len |-> 0, modified |-> NoTime, created |-> NoTime]

InitLocal ==
    [path |-> "", metadata |-> NoMetadata, buffer |-> <<>>,
     file_size |-> 0, modified |-> 0, created |-> 0,
     md5_result |-> <<>>, md5_hex |-> <<>>,
     sha1_result |-> <<>>, sha1_hex |-> <<>>,
     sha256_result |-> <<>>, sha256_hex |-> <<>>,
     sha512_result |-> <<>>, sha512_hex |-> <<>>]

\* a.txt is any entry; b.txt, the second copy, is a plain file or none
Init ==
    /\ fs \in {f \in [Paths -> FileEntries] : f["b.txt"] \in PlainEntries}
    /\ pc = [i \in Invocations |-> "idle"]
    /\ local = [i \in Invocations |-> InitLocal]
    /\ ret = [i \in Invocations |-> Pending]
    /\ outcome = [i \in Invocations |-> Pending]
    /\ trace = [i \in Invocations |-> <<>>]
    /\ ui = StartUi("hidden")

(***************************************************************************)
(* The steps of one invocation.                                            *)
(***************************************************************************)
\* the step at pc[i] goes on to the next one
Goto(i, next) ==
    /\ pc' = [pc EXCEPT ![i] = next]
    /\ trace' = [trace EXCEPT ![i] = Append(@, pc[i])]
    /\ UNCHANGED ui

\* HashResult { md5: md5_hex, .., file_size, modified: modified.to_string(), .. }
HashResult(l) ==
    [md5 |-> l.md5_hex, sha1 |-> l.sha1_hex, sha256 |-> l.sha256_hex,
     sha512 |-> l.sha512_hex, file_size |-> l.file_size,
     modified |-> to_string(l.modified), created |-> to_string(l.created)]

\* an error swallowed: the record of whatever the locals hold is returned
ReturnDefault(i, r) ==
    /\ ret' = [ret EXCEPT ![i] = IF r.tag = "Err" THEN Ok(HashResult(local[i])) ELSE r]
    /\ Goto(i, "map_err")

\* the ? operator on an Err, and the final Ok: calculate_file_hash returns r
Return(i, r) ==
    /\ ret' = [ret EXCEPT ![i] = r]
    /\ Goto(i, "map_err")

\* File::open(path)
OpenFile(entry) ==
    IF entry.state = "missing" THEN Err(IoError("NotFound"))
    ELSE IF entry.state = "denied" THEN Err(IoError("PermissionDenied"))
    ELSE Ok(entry)

\* the invocations issued before i
Earlier(i) ==
    LET pos == CHOOSE k \in DOMAIN InvocationOrder : InvocationOrder[k] = i
    IN  {InvocationOrder[k] : k \in 1..(pos - 1)}

\* the frontend invokes the command with a path, once the invocations
\* before it have returned
Call(i, p) ==
    /\ pc[i] = "idle"
    /\ \A j \in Earlier(i) : pc[j] = "done"
    /\ local' = [local EXCEPT ![i].path = p]
    /\ Goto(i, "open")
    /\ UNCHANGED <<fs, ret, outcome>>

\* File::open tried a second time when it fails
OpenRetry(i) ==
    /\ pc[i] = "open"
    /\ LET file == OpenFile(fs[local[i].path])
       IN  IF file.tag = "Ok"
           THEN Goto(i, "metadata") /\ UNCHANGED ret
           ELSE IF \E k \in DOMAIN trace[i] : trace[i][k] = "open"
                THEN Return(i, file)
                ELSE Goto(i, "open") /\ UNCHANGED ret
    /\ UNCHANGED <<fs, local, outcome>>

\* let mut file = File::open(path)?;
Open(i) ==
    /\ pc[i] = "open"
    /\ LET file == OpenFile(fs[local[i].path])
       IN  IF file.tag = "Ok"
           THEN Goto(i, "metadata") /\ UNCHANGED ret
           ELSE Return(i, file)
    /\ UNCHANGED <<fs, local, outcome>>

\* file.metadata(): the length and the timestamps as they are now
FileMetadata(entry) ==
    [len |-> Len(entry.content), modified |-> entry.mtime, created |-> entry.ctime]

\* let metadata = file.metadata()?;
Metadata(i) ==
    /\ pc[i] = "metadata"
    /\ \E fault \in BOOLEAN :
          IF fault
          THEN Return(i, Err(IoError("Other"))) /\ UNCHANGED local
          ELSE /\ local' = [local EXCEPT ![i].metadata = FileMetadata(fs[local[i].path])]
               /\ Goto(i, "read")
               /\ UNCHANGED ret
    /\ UNCHANGED <<fs, outcome>>

\* file.read_to_end(&mut buffer): every byte the file holds now
ReadToEnd(entry) == entry.content

\* the read with one buffer that all invocations fill and hash (a static)
ReadShared(i) ==
    /\ pc[i] = "read"
    /\ \E fault \in BOOLEAN :
          IF fault
          THEN Return(i, Err(IoError("Other"))) /\ UNCHANGED local
          ELSE /\ local' = [j \in Invocations |->
                               [local[j] EXCEPT !.buffer = ReadToEnd(fs[local[i].path])]]
               /\ Goto(i, "modified")
               /\ UNCHANGED ret
    /\ UNCHANGED <<fs, outcome>>

\* let mut buffer = Vec::new(); file.read_to_end(&mut buffer)?;
Read(i) ==
    /\ pc[i] = "read"
    /\ \E fault \in BOOLEAN :
          IF fault
          THEN Return(i, Err(IoError("Other"))) /\ UNCHANGED local
          ELSE /\ local' = [local EXCEPT ![i].buffer = ReadToEnd(fs[local[i].path])]
               /\ Goto(i, "modified")
               /\ UNCHANGED ret
    /\ UNCHANGED <<fs, outcome>>

\* let file_size = metadata.len();
FileSize(l) == l.metadata.len

\* time.duration_since(UNIX_EPOCH): an Err for a time before the epoch
DurationSinceEpoch(t) == IF t >= 0 THEN Ok(t) ELSE Err("SystemTimeError")

\* the duration's ticks taken for its seconds
AsTicks(d) == d

\* d.as_secs(): the whole seconds of a Duration
AsSecs(d) == d \div TicksPerSec

\* .duration_since(UNIX_EPOCH).map(|d| d.as_secs()).unwrap_or(0)
SecsSinceEpoch(t) ==
    LET d == DurationSinceEpoch(t)
    IN  IF d.tag = "Ok" THEN AsSecs(d.value) ELSE 0

\* metadata.modified().unwrap_or(UNIX_EPOCH): no ? on the timestamp
ModifiedOrEpoch(meta) ==
    IF meta.modified.avail THEN Ok(meta.modified.ticks) ELSE Ok(0)

\* metadata.created().unwrap_or(UNIX_EPOCH): no ? on the timestamp
CreatedOrEpoch(meta) ==
    IF meta.created.avail THEN Ok(meta.created.ticks) ELSE Ok(0)

\* metadata.modified(): io::Result<SystemTime>
MetadataModified(meta) ==
    IF meta.modified.avail THEN Ok(meta.modified.ticks)
    ELSE Err(IoError("Unsupported"))

\* metadata.created(): io::Result<SystemTime>
MetadataCreated(meta) ==
    IF meta.created.avail THEN Ok(meta.created.ticks)
    ELSE Err(IoError("Unsupported"))

\* let file_size = metadata.len();
\* let modified = metadata.modified()?.duration_since(..)...unwrap_or(0);
Modified(i) ==
    /\ pc[i] = "modified"
    /\ LET time == MetadataModified(local[i].metadata)
       IN  IF time.tag = "Ok"
           THEN /\ local' = [local EXCEPT ![i].file_size = FileSize(local[i]),
                                          ![i].modified = SecsSinceEpoch(time.value)]
                /\ Goto(i, "created")
                /\ UNCHANGED ret
           ELSE Return(i, time) /\ UNCHANGED local
    /\ UNCHANGED <<fs, outcome>>

\* let created = metadata.created()?.duration_since(..)...unwrap_or(0);
Created(i) ==
    /\ pc[i] = "created"
    /\ LET time == MetadataCreated(local[i].metadata)
       IN  IF time.tag = "Ok"
           THEN /\ local' = [local EXCEPT ![i].created = SecsSinceEpoch(time.value)]
                /\ Goto(i, "md5")
                /\ UNCHANGED ret
           ELSE Return(i, time) /\ UNCHANGED local
    /\ UNCHANGED <<fs, outcome>>

\* the first metadata.len() bytes of the buffer
BufferPrefix(l) ==
    SubSeq(l.buffer, 1, IF l.metadata.len < Len(l.buffer) THEN l.metadata.len
                        ELSE Len(l.buffer))

\* hasher.update(&buffer): the bytes every accumulator is fed
HashInput(l) == l.buffer

\* Md5::new() where Sha1::new() stands
Sha1ResultByMd5(l) == Md5(HashInput(l))

\* md5_hasher.update(&buffer); md5_hasher.finalize()
Md5Result(l) == Md5(HashInput(l))

\* sha1_hasher.update(&buffer); sha1_hasher.finalize()
Sha1Result(l) == Sha1(HashInput(l))

\* sha256_hasher.update(&buffer); sha256_hasher.finalize()
Sha256Result(l) == Sha256(HashInput(l))

\* sha512_hasher.update(&buffer); sha512_hasher.finalize()
Sha512Result(l) == Sha512(HashInput(l))

\* Calculate MD5
HashMd5(i) ==
    /\ pc[i] = "md5"
    /\ LET md5_result == Md5Result(local[i])
       IN  local' = [local EXCEPT ![i].md5_result = md5_result,
                                  ![i].md5_hex = LowerHex(md5_result)]
    /\ Goto(i, "sha1")
    /\ UNCHANGED <<fs, ret, outcome>>

\* Calculate SHA1
HashSha1(i) ==
    /\ pc[i] = "sha1"
    /\ LET sha1_result == Sha1Result(local[i])
       IN  local' = [local EXCEPT ![i].sha1_result = sha1_result,
                                  ![i].sha1_hex = LowerHex(sha1_result)]
    /\ Goto(i, "sha256")
    /\ UNCHANGED <<fs, ret, outcome>>

\* Calculate SHA256
HashSha256(i) ==
    /\ pc[i] = "sha256"
    /\ LET sha256_result == Sha256Result(local[i])
       IN  local' = [local EXCEPT ![i].sha256_result = sha256_result,
                                  ![i].sha256_hex = LowerHex(sha256_result)]
    /\ Goto(i, "sha512")
    /\ UNCHANGED <<fs, ret, outcome>>

\* Calculate SHA512
HashSha512(i) ==
    /\ pc[i] = "sha512"
    /\ LET sha512_result == Sha512Result(local[i])
       IN  local' = [local EXCEPT ![i].sha512_result = sha512_result,
                                  ![i].sha512_hex = LowerHex(sha512_result)]
    /\ Goto(i, "result")
    /\ UNCHANGED <<fs, ret, outcome>>

\* Ok(HashResult { .. })
Result(i) ==
    /\ pc[i] = "result"
    /\ Return(i, Ok(HashResult(local[i])))
    /\ UNCHANGED <<fs, local, outcome>>

\* a failure turned into an empty result record
MapErrToDefault(r) ==
    IF r.tag = "Err" THEN Ok(HashResult(InitLocal)) ELSE r

\* .map_err(|e| e.to_string())
MapErr(r) == IF r.tag = "Err" THEN Err(ErrorToString(r.error)) ELSE r

\* calculate_checksum returns calculate_file_hash(&path).map_err(..)
ReturnChecksum(i) ==
    /\ pc[i] = "map_err"
    /\ outcome' = [outcome EXCEPT ![i] = MapErr(ret[i])]
    /\ Goto(i, "done")
    /\ UNCHANGED <<fs, local, ret>>

(***************************************************************************)
(* Other processes write the files while invocations run.  The writes     *)
(* modelled are those made while an invocation has the file open and has   *)
(* not read it to the end: what a file holds at any other time is any      *)
(* content, as Init and these writes leave it.                             *)
(***************************************************************************)
\* an invocation has opened p and not finished reading it
OpenForRead(p) ==
    \E i \in Invocations : pc[i] \in {"metadata", "read"} /\ local[i].path = p

\* another process appends a byte to the file
AppendByte(p, b) ==
    /\ fs[p].state = "file"
    /\ OpenForRead(p)
    /\ Len(fs[p].content) < MaxLen
    /\ fs' = [fs EXCEPT ![p].content = Append(@, b)]
    /\ UNCHANGED <<pc, local, ret, outcome, trace, ui>>

\* another process truncates the file to n bytes
Truncate(p, n) ==
    /\ fs[p].state = "file"
    /\ OpenForRead(p)
    /\ n < Len(fs[p].content)
    /\ fs' = [fs EXCEPT ![p].content = SubSeq(@, 1, n)]
    /\ UNCHANGED <<pc, local, ret, outcome, trace, ui>>

Next ==
    \/ \E i \in Invocations, p \in Paths : Call(i, p)
    \/ \E i \in Invocations : Open(i)
    \/ \E i \in Invocations : Metadata(i)
    \/ \E i \in Invocations : Read(i)
    \/ \E i \in Invocations : Modified(i)
    \/ \E i \in Invocations : Created(i)
    \/ \E i \in Invocations : HashMd5(i)
    \/ \E i \in Invocations : HashSha1(i)
    \/ \E i \in Invocations : HashSha256(i)
    \/ \E i \in Invocations : HashSha512(i)
    \/ \E i \in Invocations : Result(i)
    \/ \E i \in Invocations : ReturnChecksum(i)
    \/ \E p \in Paths, b \in Bytes : AppendByte(p, b)
    \/ \E p \in Paths, n \in 0..MaxLen : Truncate(p, n)

Spec == Init /\ [][Next]_vars

(***************************************************************************)
(* Progress.  The body of calculate_file_hash has no await point, no loop  *)
(* of its own and no lock: each statement is a system call on a file or a  *)
(* computation over the buffer, and the runtime runs a command it has      *)
(* started until it returns.  So a step of an invocation that can be taken *)
(* is taken; nothing obliges the frontend to call, nor another process to  *)
(* write.                                                                  *)
(***************************************************************************)
\* the next statement of invocation i
Step(i) ==
    \/ Open(i)
    \/ Metadata(i)
    \/ Read(i)
    \/ Modified(i)
    \/ Created(i)
    \/ HashMd5(i)
    \/ HashSha1(i)
    \/ HashSha256(i)
    \/ HashSha512(i)
    \/ Result(i)
    \/ ReturnChecksum(i)

\* one path names a file of any kind, the other names none
InitFair == Init /\ fs["b.txt"] = Missing

SpecFair ==
    /\ InitFair
    /\ [][Next]_vars
    /\ \A i \in Invocations : WF_vars(Step(i))

(***************************************************************************)
(* Concurrent invocations.  calculate_checksum is an async command: the    *)
(* runtime may run several invocations at once, their steps interleaved in *)
(* any order.  Here no other process writes the files.                     *)
(***************************************************************************)
\* the frontend invokes the command with a path, whatever else is running
CallConcurrent(i, p) ==
    /\ pc[i] = "idle"
    /\ local' = [local EXCEPT ![i].path = p]
    /\ Goto(i, "open")
    /\ UNCHANGED <<fs, ret, outcome>>

NextConcurrent ==
    \/ \E i \in Invocations, p \in Paths : CallConcurrent(i, p)
    \/ \E i \in Invocations : Open(i)
    \/ \E i \in Invocations : Metadata(i)
    \/ \E i \in Invocations : Read(i)
    \/ \E i \in Invocations : Modified(i)
    \/ \E i \in Invocations : Created(i)
    \/ \E i \in Invocations : HashMd5(i)
    \/ \E i \in Invocations : HashSha1(i)
    \/ \E i \in Invocations : HashSha256(i)
    \/ \E i \in Invocations : HashSha512(i)
    \/ \E i \in Invocations : Result(i)
    \/ \E i \in Invocations : ReturnChecksum(i)

SpecConcurrent == Init /\ [][NextConcurrent]_vars

(***************************************************************************)
(* calculate_checksum as the function of the file it computes when it runs *)
(* alone on a file that does not change: the statements of lines 27 to 82  *)
(* one after the other.  fault names the I/O call the system fails, if     *)
(* any: "metadata", "read" or "none".                                      *)
(***************************************************************************)
LoneRun(entry, fault) ==
    LET file == OpenFile(entry)
        metadata == FileMetadata(entry)
        buffer == ReadToEnd(entry)
        mtime == MetadataModified(metadata)
        ctime == MetadataCreated(metadata)
        read == [InitLocal EXCEPT !.metadata = metadata, !.buffer = buffer]
        timed == [read EXCEPT !.file_size = FileSize(read),
                              !.modified = SecsSinceEpoch(mtime.value),
                              !.created = SecsSinceEpoch(ctime.value)]
        hashed == [timed EXCEPT !.md5_hex = LowerHex(Md5Result(timed)),
                                !.sha1_hex = LowerHex(Sha1Result(timed)),
                                !.sha256_hex = LowerHex(Sha256Result(timed)),
                                !.sha512_hex = LowerHex(Sha512Result(timed))]
        returned ==
            IF file.tag = "Err" THEN file
            ELSE IF fault \in {"metadata", "read"} THEN Err(IoError("Other"))
            ELSE IF mtime.tag = "Err" THEN mtime
            ELSE IF ctime.tag = "Err" THEN ctime
            ELSE Ok(HashResult(hashed))
    IN  MapErr(returned)

(***************************************************************************)
(* The four digest computations in any order.  Each of lines 46-48, 52-54, *)
(* 58-60 and 64-66 creates its own accumulator, feeds it &buffer and       *)
(* finalizes it; here the four blocks run in any of their 24 orders.  No   *)
(* other process writes the files.                                         *)
(***************************************************************************)
Hashers == {"md5", "sha1", "sha256", "sha512"}

\* hasher.update(buffer.drain(..)): feeding an accumulator empties the buffer
UpdateDrains(l) == <<>>

\* hasher.update(&buffer) borrows the buffer: what it holds after the call
Updated(l) == l.buffer

\* hasher.update(&buffer); hasher.finalize() of the accumulator h
Finalized(h, l) ==
    CASE h = "md5" -> Md5Result(l)
      [] h = "sha1" -> Sha1Result(l)
      [] h = "sha256" -> Sha256Result(l)
      [] h = "sha512" -> Sha512Result(l)

\* the accumulator h has been finalized
HasResult(l, h) == l[h \o "_result"] # <<>>

\* one of the four blocks "Calculate MD5" .. "Calculate SHA512"
HashAnyOrder(i, h) ==
    /\ pc[i] = "md5"
    /\ ~HasResult(local[i], h)
    /\ LET result == Finalized(h, local[i])
       IN  local' = [local EXCEPT ![i][h \o "_result"] = result,
                                  ![i][h \o "_hex"] = LowerHex(result),
                                  ![i].buffer = Updated(local[i])]
    /\ pc' = [pc EXCEPT ![i] =
                 IF \A g \in Hashers \ {h} : HasResult(local[i], g)
                 THEN "result" ELSE "md5"]
    /\ trace' = [trace EXCEPT ![i] = Append(@, h)]
    /\ UNCHANGED <<fs, ret, outcome, ui>>

NextAnyOrder ==
    \/ \E i \in Invocations, p \in Paths : Call(i, p)
    \/ \E i \in Invocations : Open(i)
    \/ \E i \in Invocations : Metadata(i)
    \/ \E i \in Invocations : Read(i)
    \/ \E i \in Invocations : Modified(i)
    \/ \E i \in Invocations : Created(i)
    \/ \E i \in Invocations, h \in Hashers : HashAnyOrder(i, h)
    \/ \E i \in Invocations : Result(i)
    \/ \E i \in Invocations : ReturnChecksum(i)

\* the timestamps play no part in the digests: both are supplied
InitAnyOrder == Init /\ \A p \in Paths : fs[p] \in PlainEntries

SpecAnyOrder == InitAnyOrder /\ [][NextAnyOrder]_vars

(***************************************************************************)
(* The UI shell of main(): the close handler of the main window, the task  *)
(* that shows the window on launch, the tray icon and its menu.  The       *)
(* windowing system sends the events in any order, at most MaxEvents of    *)
(* them; no command is invoked meanwhile.                                  *)
(***************************************************************************)
MouseButtons == {"Left", "Right"}

MouseButtonStates == {"Up", "Down"}

\* the ids a menu event can carry: the Quit item's and any other
MenuIds == {"quit", "about"}

\* the shell handles events while the application runs
Receives ==
    /\ ui.app = "running"
    /\ Len(ui.events) < MaxEvents

\* the shell after handling the event e, the window and application as given
Handled(e, w, a) ==
    [ui EXCEPT !.events = Append(@, e), !.window = w, !.app = a]

\* a close handler that hides the window and lets the close go on
HideOnly(w) == [window |-> "hidden", prevent_close |-> FALSE]

\* window_clone.hide().unwrap(); api.prevent_close();
OnCloseRequested(w) == [window |-> "hidden", prevent_close |-> TRUE]

\* WindowEvent::CloseRequested on the main window: the handler runs; a
\* close that is not prevented destroys the window, and the application
\* exits with its last window
CloseRequested ==
    /\ Receives
    /\ ui.window # "closed"
    /\ LET handler == OnCloseRequested(ui.window)
       IN  ui' = IF handler.prevent_close
                 THEN Handled([type |-> "CloseRequested"], handler.window, ui.app)
                 ELSE Handled([type |-> "CloseRequested"], "closed", "exited")
    /\ UNCHANGED <<fs, pc, local, ret, outcome, trace>>

\* the task spawned in setup: center, set_position, show(), set_focus()
ShowOnLaunch ==
    /\ Receives
    /\ ~ui.launched
    /\ ui.window # "closed"
    /\ ui' = [Handled([type |-> "launch"], "visible", ui.app) EXCEPT !.launched = TRUE]
    /\ UNCHANGED <<fs, pc, local, ret, outcome, trace>>

\* if window.is_visible().unwrap_or(false) { hide() } else { show() }
Toggle(w) ==
    CASE w = "visible" -> "hidden"
      [] w = "hidden" -> "visible"
      [] OTHER -> w

\* on_tray_icon_event: a click of the tray icon
TrayIconEvent(button, button_state) ==
    /\ Receives
    /\ LET e == [type |-> "Click", button |-> button, button_state |-> button_state]
       IN  ui' = IF button = "Left" /\ button_state = "Up"
                 THEN Handled(e, Toggle(ui.window), ui.app)
                 ELSE Handled(e, ui.window, ui.app)
    /\ UNCHANGED <<fs, pc, local, ret, outcome, trace>>

\* on_menu_event: "quit" => app.exit(0), _ => {}
MenuEvent(id) ==
    /\ Receives
    /\ LET e == [type |-> "MenuEvent", id |-> id]
       IN  ui' = IF id = "quit"
                 THEN Handled(e, ui.window, "exited")
                 ELSE Handled(e, ui.window, ui.app)
    /\ UNCHANGED <<fs, pc, local, ret, outcome, trace>>

NextUI ==
    \/ CloseRequested
    \/ ShowOnLaunch
    \/ \E button \in MouseButtons, button_state \in MouseButtonStates :
          TrayIconEvent(button, button_state)
    \/ \E id \in MenuIds : MenuEvent(id)

\* no file, no invocation; the window as the configuration creates it
InitUI ==
    /\ fs = [p \in Paths |-> Missing]
    /\ pc = [i \in Invocations |-> "idle"]
    /\ local = [i \in Invocations |-> InitLocal]
    /\ ret = [i \in Invocations |-> Pending]
    /\ outcome = [i \in Invocations |-> Pending]
    /\ trace = [i \in Invocations |-> <<>>]
    /\ ui \in {StartUi("hidden"), StartUi("visible")}

SpecUI == InitUI /\ [][NextUI]_vars


(***************************************************************************)
(* The claims.                                                             *)
(***************************************************************************)
\* calculate_file_hash has returned to calculate_checksum
Returned(i) == pc[i] \in {"map_err", "done"}

\* calculate_file_hash has returned a result record
Succeeded(i) == Returned(i) /\ ret[i].tag = "Ok"

\* the step ran in invocation i (to its end, or to an error return)
Ran(i, step) == \E k \in DOMAIN trace[i] : trace[i][k] = step

ResultFields == {"md5", "sha1", "sha256", "sha512", "file_size", "modified", "created"}

\* C1: an invocation that has returned holds either a result record with
\* all seven fields set or a failure with no result field, nothing before it
\* returns, and a path that names no file always gives the failure.
C1_ResultOrFailure ==
    \A i \in Invocations :
        /\ ~Returned(i) => ret[i] = Pending
        /\ Returned(i) =>
              \/ /\ ret[i].tag = "Ok"
                 /\ DOMAIN ret[i] = {"tag", "value"}
                 /\ DOMAIN ret[i].value = ResultFields
                 /\ \A f \in ResultFields \ {"file_size"} : Len(ret[i].value[f]) > 0
                 /\ ret[i].value.file_size \in Nat
              \/ /\ ret[i].tag = "Err"
                 /\ DOMAIN ret[i] = {"tag", "error"}
                 /\ DOMAIN ret[i].error = {"kind"}
        /\ (Returned(i) /\ fs[local[i].path].state = "missing") => ret[i].tag = "Err"

\* one invocation failed on a path that names no file, another succeeded
C1_Witness ==
    \E i, j \in Invocations :
        /\ Returned(i) /\ fs[local[i].path].state = "missing" /\ ret[i].tag = "Err"
        /\ Succeeded(j)

\* C2: in every successful result file_size is the number of bytes read
\* into the buffer that was hashed, whatever other processes did to the file
\* between the metadata call and the end of the read.
C2_FileSizeIsBytesRead ==
    \A i \in Invocations :
        Succeeded(i) => ret[i].value.file_size = Len(local[i].buffer)

\* C3: in every successful result the four digest strings are 32, 40, 64
\* and 128 characters long, whatever the size of the input.
C3_DigestLengths ==
    \A i \in Invocations :
        Succeeded(i) =>
            /\ Len(ret[i].value.md5) = 32
            /\ Len(ret[i].value.sha1) = 40
            /\ Len(ret[i].value.sha256) = 64
            /\ Len(ret[i].value.sha512) = 128

\* a zero-length input and a longer one both gave a result
C3_Witness ==
    \E i, j \in Invocations :
        /\ Succeeded(i) /\ Len(local[i].buffer) = 0
        /\ Succeeded(j) /\ Len(local[j].buffer) > 0

\* the value of a lowercase hexadecimal digit
HexCharValue ==
    "0" :> 0 @@ "1" :> 1 @@ "2" :> 2 @@ "3" :> 3 @@ "4" :> 4 @@ "5" :> 5
    @@ "6" :> 6 @@ "7" :> 7 @@ "8" :> 8 @@ "9" :> 9 @@ "a" :> 10 @@ "b" :> 11
    @@ "c" :> 12 @@ "d" :> 13 @@ "e" :> 14 @@ "f" :> 15

\* s is the bytes in lowercase hexadecimal: two digits a byte, the high
\* nibble first, and nothing else
IsLowerHexOf(s, bytes) ==
    /\ Len(bytes) > 0
    /\ Len(s) = 2 * Len(bytes)
    /\ \A k \in DOMAIN s : s[k] \in DOMAIN HexCharValue
    /\ \A k \in DOMAIN bytes :
          HexCharValue[s[2 * k - 1]] * 16 + HexCharValue[s[2 * k]] = bytes[k]

\* C4: each digest string of a successful result is the lowercase
\* hexadecimal encoding of the raw digest bytes, two characters a byte, most
\* significant first, with no other character.
C4_HexEncoding ==
    \A i \in Invocations :
        Succeeded(i) =>
            /\ IsLowerHexOf(ret[i].value.md5, local[i].md5_result)
            /\ IsLowerHexOf(ret[i].value.sha1, local[i].sha1_result)
            /\ IsLowerHexOf(ret[i].value.sha256, local[i].sha256_result)
            /\ IsLowerHexOf(ret[i].value.sha512, local[i].sha512_result)

\* a result whose MD5 digest has a byte below 16 and a byte with a letter
\* digit: the leading zero and the letter case both show
C4_Witness ==
    \E i \in Invocations :
        /\ Succeeded(i)
        /\ \E k \in DOMAIN local[i].md5_result : local[i].md5_result[k] < 16
        /\ \E k \in DOMAIN local[i].md5_result : local[i].md5_result[k] % 16 > 9

\* C5: two successful invocations that read identical bytes, from the same
\* path or from different ones and with any timestamps, return the same four
\* digest strings.
C5_Determinism ==
    \A i, j \in Invocations :
        (Succeeded(i) /\ Succeeded(j) /\ local[i].buffer = local[j].buffer) =>
            /\ ret[i].value.md5 = ret[j].value.md5
            /\ ret[i].value.sha1 = ret[j].value.sha1
            /\ ret[i].value.sha256 = ret[j].value.sha256
            /\ ret[i].value.sha512 = ret[j].value.sha512

\* two results for the same bytes under different paths and timestamps
C5_Witness ==
    \E i, j \in Invocations :
        /\ Succeeded(i) /\ Succeeded(j)
        /\ local[i].path # local[j].path
        /\ local[i].buffer = local[j].buffer
        /\ Len(local[i].buffer) > 0
        /\ ret[i].value.modified # ret[j].value.modified

\* MD5("") as the specification and the tests give it
EmptyMd5 ==
    <<
       "d", "4", "1", "d", "8", "c", "d", "9", "8", "f", "0", "0", "b", "2", "0", "4",
       "e", "9", "8", "0", "0", "9", "9", "8", "e", "c", "f", "8", "4", "2", "7", "e"
    >>

\* SHA-1("") as the specification and the tests give it
EmptySha1 ==
    <<
       "d", "a", "3", "9", "a", "3", "e", "e", "5", "e", "6", "b", "4", "b", "0", "d",
       "3", "2", "5", "5", "b", "f", "e", "f", "9", "5", "6", "0", "1", "8", "9", "0",
       "a", "f", "d", "8", "0", "7", "0", "9"
    >>

\* SHA-256("") as the specification and the tests give it
EmptySha256 ==
    <<
       "e", "3", "b", "0", "c", "4", "4", "2", "9", "8", "f", "c", "1", "c", "1", "4",
       "9", "a", "f", "b", "f", "4", "c", "8", "9", "9", "6", "f", "b", "9", "2", "4",
       "2", "7", "a", "e", "4", "1", "e", "4", "6", "4", "9", "b", "9", "3", "4", "c",
       "a", "4", "9", "5", "9", "9", "1", "b", "7", "8", "5", "2", "b", "8", "5", "5"
    >>

\* SHA-512("") as the specification and the tests give it
EmptySha512 ==
    <<
       "c", "f", "8", "3", "e", "1", "3", "5", "7", "e", "e", "f", "b", "8", "b", "d",
       "f", "1", "5", "4", "2", "8", "5", "0", "d", "6", "6", "d", "8", "0", "0", "7",
       "d", "6", "2", "0", "e", "4", "0", "5", "0", "b", "5", "7", "1", "5", "d", "c",
       "8", "3", "f", "4", "a", "9", "2", "1", "d", "3", "6", "c", "e", "9", "c", "e",
       "4", "7", "d", "0", "d", "1", "3", "c", "5", "d", "8", "5", "f", "2", "b", "0",
       "f", "f", "8", "3", "1", "8", "d", "2", "8", "7", "7", "e", "e", "c", "2", "f",
       "6", "3", "b", "9", "3", "1", "b", "d", "4", "7", "4", "1", "7", "a", "8", "1",
       "a", "5", "3", "8", "3", "2", "7", "a", "f", "9", "2", "7", "d", "a", "3", "e"
    >>

\* the file was zero-length at the metadata call and at the read
ReadEmpty(i) ==
    Ran(i, "modified") /\ local[i].metadata.len = 0 /\ local[i].buffer = <<>>

\* C6: a zero-length file is a valid input: when its timestamps are there
\* the invocation succeeds, with file_size 0 and the four empty-input
\* digests.
C6_EmptyFile ==
    \A i \in Invocations :
        (/\ Returned(i)
         /\ ReadEmpty(i)
         /\ local[i].metadata.modified.avail
         /\ local[i].metadata.created.avail) =>
            /\ ret[i].tag = "Ok"
            /\ ret[i].value.file_size = 0
            /\ ret[i].value.md5 = EmptyMd5
            /\ ret[i].value.sha1 = EmptySha1
            /\ ret[i].value.sha256 = EmptySha256
            /\ ret[i].value.sha512 = EmptySha512

\* a zero-length file gave a result
C6_Witness == \E i \in Invocations : Succeeded(i) /\ ReadEmpty(i)

\* the value of a string of decimal digits
RECURSIVE DecimalValue(_)
DecimalValue(s) ==
    IF s = <<>> THEN 0
    ELSE 10 * DecimalValue(SubSeq(s, 1, Len(s) - 1))
         + (CHOOSE d \in 0..9 : DecimalDigits[d + 1] = s[Len(s)])

\* s is the decimal string of the whole seconds from the epoch to the
\* time, and of 0 for a time before the epoch
IsSecondsOf(s, time) ==
    /\ Len(s) > 0
    /\ \A k \in DOMAIN s : \E d \in 0..9 : DecimalDigits[d + 1] = s[k]
    /\ Len(s) > 1 => s[1] # "0"
    /\ LET secs == DecimalValue(s)
       IN  IF time.ticks < 0 THEN secs = 0
           ELSE /\ secs * TicksPerSec <= time.ticks
                /\ time.ticks < (secs + 1) * TicksPerSec

\* C7: in every successful result modified and created are the decimal
\* strings of the whole seconds since the epoch, "0" for a timestamp before
\* the epoch; and an invocation that read its file and has both timestamps
\* succeeds, before the epoch or not.
C7_Timestamps ==
    \A i \in Invocations :
        /\ Succeeded(i) =>
              /\ IsSecondsOf(ret[i].value.modified, local[i].metadata.modified)
              /\ IsSecondsOf(ret[i].value.created, local[i].metadata.created)
        /\ (/\ Returned(i)
            /\ Ran(i, "modified")
            /\ local[i].metadata.modified.avail
            /\ local[i].metadata.created.avail) => ret[i].tag = "Ok"

\* a result with a timestamp before the epoch and one after it
C7_Witness ==
    \E i \in Invocations :
        /\ Succeeded(i)
        /\ local[i].metadata.modified.ticks < 0
        /\ ret[i].value.modified = <<"0">>
        /\ local[i].metadata.created.ticks > 0
        /\ Len(ret[i].value.created) > 1

\* C8 as claimed: when the platform cannot supply the modified timestamp
\* (and can supply the created one) the invocation succeeds with modified
\* "0".
C8_ModifiedUnavailableClamped ==
    \A i \in Invocations :
        (/\ Returned(i)
         /\ Ran(i, "modified")
         /\ ~local[i].metadata.modified.avail
         /\ local[i].metadata.created.avail) =>
            /\ ret[i].tag = "Ok"
            /\ ret[i].value.modified = <<"0">>

\* C8, amended: when the platform cannot supply the modified timestamp the
\* invocation fails with that I/O error, and no result record is returned
\* for a file whose modified timestamp is unavailable.
C8_ModifiedUnavailableFails ==
    \A i \in Invocations :
        /\ (Returned(i) /\ Ran(i, "modified") /\ ~local[i].metadata.modified.avail) =>
              ret[i] = Err(IoError("Unsupported"))
        /\ Succeeded(i) => local[i].metadata.modified.avail

\* an invocation read a file whose modified timestamp is unavailable, and
\* has returned
C8_Witness ==
    \E i \in Invocations :
        /\ Returned(i)
        /\ Ran(i, "modified")
        /\ ~local[i].metadata.modified.avail
        /\ local[i].metadata.created.avail

\* C9: when the platform cannot supply the creation timestamp the
\* invocation fails, and no result record carries a created value made up
\* for a missing timestamp.
C9_CreatedUnavailableFails ==
    \A i \in Invocations :
        /\ (Returned(i) /\ Ran(i, "created") /\ ~local[i].metadata.created.avail) =>
              ret[i] = Err(IoError("Unsupported"))
        /\ (Returned(i) /\ Ran(i, "modified") /\ ~local[i].metadata.created.avail) =>
              ret[i].tag = "Err"
        /\ Succeeded(i) => local[i].metadata.created.avail

\* the created step ran on a file with no creation timestamp, and the
\* invocation has returned
C9_Witness ==
    \E i \in Invocations :
        /\ Returned(i)
        /\ Ran(i, "created")
        /\ ~local[i].metadata.created.avail

\* the step whose error calculate_file_hash returned
FailedAt(i) == trace[i][Len(trace[i]) - (IF pc[i] = "done" THEN 1 ELSE 0)]

\* C10: calculate_checksum returns Ok with the unchanged record exactly
\* when calculate_file_hash succeeded, and otherwise a failure that carries
\* only a message string, whichever step the I/O failure came from.
C10_CommandResult ==
    \A i \in Invocations :
        /\ pc[i] # "done" => outcome[i] = Pending
        /\ pc[i] = "done" =>
              /\ outcome[i].tag = "Ok" <=> ret[i].tag = "Ok"
              /\ ret[i].tag = "Ok" => outcome[i] = ret[i]
              /\ ret[i].tag = "Err" =>
                    /\ FailedAt(i) \in {"open", "metadata", "read", "modified", "created"}
                    /\ outcome[i].tag = "Err"
                    /\ DOMAIN outcome[i] = {"tag", "error"}
                    /\ outcome[i].error \in STRING
                    /\ outcome[i].error # ""

\* the command has returned a result for one invocation and the message of
\* a timestamp failure for another
C10_Witness ==
    \E i, j \in Invocations :
        /\ pc[i] = "done" /\ outcome[i].tag = "Ok"
        /\ pc[j] = "done" /\ outcome[j].tag = "Err" /\ FailedAt(j) = "created"

\* the I/O call of invocation i that the system failed, if any
FaultOf(i) ==
    IF ret[i].tag = "Err" /\ FailedAt(i) \in {"metadata", "read"}
    THEN FailedAt(i) ELSE "none"

\* what invocation i returns is what a lone run on its file returns
C11_LoneOutcome ==
    \A i \in Invocations :
        /\ Returned(i) =>
              MapErr(ret[i]) = LoneRun(fs[local[i].path], FaultOf(i))
        /\ pc[i] = "done" =>
              outcome[i] = LoneRun(fs[local[i].path], FaultOf(i))

\* a step that is not invocation i's leaves all that invocation i owns
C11_OwnState ==
    \A i \in Invocations :
        pc'[i] = pc[i] =>
            /\ local'[i] = local[i]
            /\ ret'[i] = ret[i]
            /\ outcome'[i] = outcome[i]
            /\ trace'[i] = trace[i]

\* C11: when invocations run concurrently, in any interleaving, over files
\* that do not change, each one's outcome is the outcome of a lone run on
\* its file, and no step of one invocation changes the buffer, the
\* accumulators' results or any other local of another.
C11_Isolation == []C11_LoneOutcome /\ [][C11_OwnState]_vars

\* two invocations in flight at once, both past their digests, on files
\* with different contents
C11_Witness ==
    \E i, j \in Invocations :
        /\ pc[i] = "map_err" /\ pc[j] = "map_err"
        /\ ret[i].tag = "Ok" /\ ret[j].tag = "Ok"
        /\ local[i].buffer # local[j].buffer

\* invocation i has read its file to the end
PastRead(i) ==
    \/ pc[i] \in {"modified", "created", "md5", "sha1", "sha256", "sha512", "result"}
    \/ Returned(i) /\ FailedAt(i) \notin {"open", "metadata", "read"}

\* the buffer is the complete file, and every digest computed so far is the
\* digest of the complete file
C12_OneByteSequence ==
    \A i \in Invocations :
        PastRead(i) =>
            LET bytes == ReadToEnd(fs[local[i].path])
            IN  /\ local[i].buffer = bytes
                /\ HasResult(local[i], "md5") => local[i].md5_result = Md5(bytes)
                /\ HasResult(local[i], "sha1") => local[i].sha1_result = Sha1(bytes)
                /\ HasResult(local[i], "sha256") =>
                      local[i].sha256_result = Sha256(bytes)
                /\ HasResult(local[i], "sha512") =>
                      local[i].sha512_result = Sha512(bytes)

\* whatever the order of the four blocks, the record returned is the one
\* the blocks return in the order of the source
C12_SameRecord ==
    \A i \in Invocations :
        Succeeded(i) => ret[i] = LoneRun(fs[local[i].path], "none")

\* feeding and finalizing an accumulator leaves the buffer as it was
C12_BufferKept ==
    \A i \in Invocations :
        pc[i] = "md5" => local'[i].buffer = local[i].buffer

\* C12: the four accumulators are fed the same complete buffer, which no
\* update or finalize changes, so the four digests are digests of one
\* byte sequence, and the four computations in any order give the same
\* result record.
C12_DigestsIndependent ==
    /\ []C12_OneByteSequence
    /\ []C12_SameRecord
    /\ [][C12_BufferKept]_vars

\* a result returned for a file that is not empty, SHA-512 computed first
\* and MD5 last
C12_Witness ==
    \E i \in Invocations :
        /\ Succeeded(i)
        /\ local[i].buffer # <<>>
        /\ \E m, n \in 1..(Len(trace[i]) - 1) :
              m < n /\ trace[i][m] = "sha512" /\ trace[i][n] = "md5"
              /\ trace[i][n + 1] = "result"

\* the statements of calculate_file_hash in the order of the source, from
\* the call to the result record
StepOrder ==
    <<"idle", "open", "metadata", "read", "modified", "created",
      "md5", "sha1", "sha256", "sha512", "result">>

\* the statements that end in ?
IoSteps == {"open", "metadata", "read", "modified", "created"}

\* the steps invocation i ran inside calculate_file_hash
BodyTrace(i) ==
    IF pc[i] = "done" THEN SubSeq(trace[i], 1, Len(trace[i]) - 1) ELSE trace[i]

\* what invocation i has run is the start of StepOrder, each step once;
\* it is at the step that follows, or it has returned: with the result
\* after the whole of StepOrder, with a failure after an I/O step
C13_InOrder ==
    \A i \in Invocations :
        LET body == BodyTrace(i)
            n == Len(body)
        IN  /\ n <= Len(StepOrder)
            /\ \A k \in 1..n : body[k] = StepOrder[k]
            /\ pc[i] = "done" => trace[i][Len(trace[i])] = "map_err"
            /\ IF Returned(i)
               THEN \/ ret[i].tag = "Ok" /\ body = StepOrder
                    \/ ret[i].tag = "Err" /\ body[n] \in IoSteps
               ELSE /\ ret[i] = Pending
                    /\ n < Len(StepOrder)
                    /\ pc[i] = StepOrder[n + 1]

\* a digest exists only after the five I/O steps ran without a failure, and
\* a failed invocation has no digest, file size or timestamp of a later step
C13_NoLaterStep ==
    \A i \in Invocations :
        /\ (\E h \in Hashers : HasResult(local[i], h)) =>
              /\ SubSeq(trace[i], 1, 6) = SubSeq(StepOrder, 1, 6)
              /\ ret[i].tag # "Err"
        /\ ret[i].tag = "Err" =>
              /\ Returned(i)
              /\ \A h \in Hashers : ~HasResult(local[i], h)
              /\ FailedAt(i) \in {"open", "metadata"} => local[i].buffer = <<>>
              /\ FailedAt(i) \in {"open", "metadata", "read", "modified"} =>
                    local[i].modified = 0 /\ local[i].file_size = 0
              /\ local[i].created = 0

\* an invocation that was called ends with the result or the failure
C13_Ends ==
    \A i \in Invocations :
        pc[i] # "idle" ~> (pc[i] = "done" /\ outcome[i].tag \in {"Ok", "Err"})

\* C13: the steps of an invocation run in the order open, metadata, read,
\* modified, created, MD5, SHA-1, SHA-256, SHA-512, result, each at most
\* once; a failure of an I/O step is returned at once, with no step after
\* it and no digest computed; and every invocation that was called ends
\* with the result or the failure.
C13_LinearAndTerminating ==
    /\ []C13_InOrder
    /\ []C13_NoLaterStep
    /\ C13_Ends

\* one invocation ended with a failure at the read, another with the result
C13_Witness ==
    \E i, j \in Invocations :
        /\ pc[i] = "done" /\ outcome[i].tag = "Err" /\ FailedAt(i) = "read"
        /\ pc[j] = "done" /\ outcome[j].tag = "Ok"
        /\ BodyTrace(j) = StepOrder

\* the event the shell handled last
LastEvent == ui.events[Len(ui.events)]

\* the step handles the event e
Handles(e) == ui'.events = Append(ui.events, e)

LeftClickUp == [type |-> "Click", button |-> "Left", button_state |-> "Up"]

\* the window is never closed, and the application has exited only if the
\* last event it handled is the menu event "quit"
C14_OnlyQuitExits ==
    /\ ui.window \in {"visible", "hidden"}
    /\ ui.app = "exited" =>
          /\ ui.events # <<>>
          /\ LastEvent = [type |-> "MenuEvent", id |-> "quit"]

\* what each event does, whatever came before it
C14_EventEffects ==
    /\ Handles([type |-> "CloseRequested"]) =>
          ui'.window = "hidden" /\ ui'.app = "running"
    /\ Handles(LeftClickUp) =>
          /\ ui.window = "visible" => ui'.window = "hidden"
          /\ ui.window = "hidden" => ui'.window = "visible"
          /\ ui'.app = "running"
    /\ ui'.app # ui.app => Handles([type |-> "MenuEvent", id |-> "quit"])

====
